---- MODULE Spec2Model ----
(***************************************************************************)
(* Analysis layer of battdegr: LifetimePredictor, StressFactorAnalysis and *)
(* ModelValidator (src/src/battdegr/analysis).                             *)
(*                                                                         *)
(* Every operation is a pure function of its arguments and of the wrapped  *)
(* degradation model, so a behaviour is one call: Init draws the operation *)
(* and its arguments, the operation's action runs the whole method and     *)
(* records how it ended.                                                   *)
(*                                                                         *)
(* Numbers.  NumPy floats are modelled as extended rationals               *)
(*   [kind, num, den]   kind \in {"fin", "inf", "ninf", "nan"}, den > 0,   *)
(* with exact arithmetic on the finite ones (no rounding, no overflow).    *)
(* Arrays are sequences: NumPy index k is element k + 1.                   *)
(***************************************************************************)
EXTENDS Integers, Sequences, FiniteSets, TLC

VARIABLES
    op,       \* the method being called
    args,     \* its arguments
    model,    \* behaviour of the wrapped degradation model (self.model)
    pc,       \* "call" before the method runs, "done" after
    outcome,  \* "none", "ok", or the exception the call ended in
    result,   \* the returned value (Null unless outcome = "ok")
    calls,    \* the calls of model.predict_fade made so far, in order
    printed   \* whether compare_scenarios printed its report

vars == <<op, args, model, pc, outcome, result, calls, printed>>

(***************************************************************************)
(* Bounds of the checked instances                                         *)
(***************************************************************************)
MaxYears == 2     \* largest max_years passed to estimate_lifetime
MaxLen == 3       \* longest predicted / actual / sweep sequence

(***************************************************************************)
(* Program constants                                                       *)
(***************************************************************************)
DaysPerYear == 365
PercentScale == 100
MapePercent == 100
DefaultMaxYears == 30

(***************************************************************************)
(* Extended rationals                                                      *)
(***************************************************************************)
Rat(n, d) == [kind |-> "fin", num |-> n, den |-> d]
Int2Rat(n) == Rat(n, 1)
Inf  == [kind |-> "inf", num |-> 0, den |-> 1]
NaN  == [kind |-> "nan", num |-> 0, den |-> 1]
Null == [kind |-> "null", num |-> 0, den |-> 1]

IsFinite(x) == x.kind = "fin"
RatEq(x, y)  == x.kind = y.kind /\ (IsFinite(x) => x.num * y.den = y.num * x.den)
RatLeq(x, y) == x.num * y.den <= y.num * x.den     \* x, y finite
RatMul(x, y) == Rat(x.num * y.num, x.den * y.den)  \* x, y finite
RatSub(x, y) == Rat(x.num * y.den - y.num * x.den, x.den * y.den)

\* the sequence (array) with the elements of f, a function on 1..n
Array(f) == f \o <<>>

Kw(kwargs, name, default) == IF name \in DOMAIN kwargs THEN kwargs[name] ELSE default
NoKwargs == [k \in {} |-> 0]

(***************************************************************************)
(* The wrapped degradation model (self.model).  It is a collaborator of    *)
(* the analysis layer; here it is a pure function chosen by the record m:  *)
(* a three-segment fade curve over time (not necessarily monotone), plus   *)
(* linear terms in temperature and in the named stressors.  m.lenDelta is  *)
(* how far the length of the returned array departs from the length of     *)
(* time_days (0 for a model that keeps the predict_fade contract).         *)
(***************************************************************************)
Segment(m, t) ==
    IF t.num < m.b1 * t.den THEN m.v0
    ELSE IF t.num < m.b2 * t.den THEN m.v1
    ELSE m.v2

\* the part of the fade that does not depend on time
StressFade(m, temperature, kwargs) ==
    m.kT * temperature
    + m.kd * Kw(kwargs, "dod", 0)
    + m.kc * Kw(kwargs, "c_rate", 0)
    + m.ks * Kw(kwargs, "soc_avg", 0)

PointFade(m, t, c, temperature, kwargs) ==
    Int2Rat(Segment(m, t) + StressFade(m, temperature, kwargs))

PredictFade(m, time_days, cycles, temperature, kwargs) ==
    LET n == Len(time_days)
        len == IF n + m.lenDelta < 0 THEN 0 ELSE n + m.lenDelta
    IN  Array([k \in 1..len |->
                  IF k <= n
                  THEN PointFade(m, time_days[k], cycles[k], temperature, kwargs)
                  ELSE Int2Rat(m.extra)])

Call(time_days, cycles, temperature, kwargs, ret) ==
    [time_days |-> time_days, cycles |-> cycles, temperature |-> temperature,
     kwargs |-> kwargs, ret |-> ret]

(***************************************************************************)
(* LifetimePredictor.estimate_lifetime                                     *)
(***************************************************************************)
\* np.linspace(start, stop, num) with the default endpoint=True:
\* num samples, step (stop - start) / (num - 1), the last one is stop.
Linspace(start, stop, num) ==
    Array([k \in 1..num |->
              IF num = 1 THEN Int2Rat(start)
              ELSE Rat(start * (num - 1) + (k - 1) * (stop - start), num - 1)])

\* time_days = np.linspace(0, max_years * 365, max_years * 365)
TimeGrid(max_years) ==
    Linspace(0, max_years * DaysPerYear, max_years * DaysPerYear)

\* cycles = time_days: one cycle per day whatever cycles_per_day is
CycleGridOnePerDay(time_days, cycles_per_day) ==
    Array([k \in 1..Len(time_days) |-> RatMul(time_days[k], Int2Rat(1))])

\* cycles = time_days * cycles_per_day
CycleGrid(time_days, cycles_per_day) ==
    Array([k \in 1..Len(time_days) |-> RatMul(time_days[k], cycles_per_day)])

\* 1.0 - fade: the fade taken as a fraction, not as a percentage
RetentionOfFraction(fade) ==
    Array([k \in 1..Len(fade) |-> RatSub(Int2Rat(1), fade[k])])

\* retention = 1.0 - (fade / 100.0)
Retention(fade) ==
    Array([k \in 1..Len(fade) |->
              LET f == fade[k]
              IN  RatSub(Int2Rat(1), Rat(f.num, f.den * PercentScale))])

\* np.where(retention <= eol_threshold)[0]: the NumPy indices, ascending
Where(retention, eol_threshold) ==
    LET AtOrBelow(i) == RatLeq(retention[i + 1], eol_threshold)
    IN  SelectSeq(Array([k \in 1..Len(retention) |-> k - 1]), AtOrBelow)

\* idx[-1]: the last crossing instead of the first
LastIndex(idx) == idx[Len(idx)]

\* idx[0]
FirstIndex(idx) == idx[1]

estimate_lifetime(m, temperature, cycles_per_day, eol_threshold, max_years, kwargs) ==
    LET time_days == TimeGrid(max_years)
        cycles    == CycleGrid(time_days, cycles_per_day)
        fade      == PredictFade(m, time_days, cycles, temperature, kwargs)
        retention == Retention(fade)
        idx       == Where(retention, eol_threshold)
        log       == <<Call(time_days, cycles, temperature, kwargs, fade)>>
    IN  IF Len(idx) > 0
        THEN IF FirstIndex(idx) < Len(time_days)
             THEN [outcome |-> "ok",
                   eol_time |-> time_days[FirstIndex(idx) + 1],
                   eol_cycles |-> cycles[FirstIndex(idx) + 1],
                   calls |-> log]
             ELSE [outcome |-> "IndexError", eol_time |-> Null,
                   eol_cycles |-> Null, calls |-> log]
        ELSE [outcome |-> "ok", eol_time |-> Inf, eol_cycles |-> Inf,
              calls |-> log]

EstimateLifetime ==
    /\ pc = "call"
    /\ op = "estimate_lifetime"
    /\ LET r == estimate_lifetime(model, args.temperature, args.cycles_per_day,
                                  args.eol_threshold, args.max_years, args.kwargs)
       IN  /\ outcome' = r.outcome
           /\ result' = [eol_time |-> r.eol_time, eol_cycles |-> r.eol_cycles]
           /\ calls' = r.calls
    /\ pc' = "done"
    /\ UNCHANGED <<op, args, model, printed>>

(***************************************************************************)
(* LifetimePredictor.compare_scenarios                                     *)
(*                                                                         *)
(* scenarios is an insertion-ordered dict: a sequence of                   *)
(* [name, params] with distinct names; params maps keys to values.  The    *)
(* returned dict is a sequence of entries in insertion order.              *)
(***************************************************************************)
\* kwargs = {k: v for k, v in params.items() if k != 'temperature'}
ScenarioKwargs(params) ==
    [k \in (DOMAIN params) \ {"temperature"} |-> params[k]]

\* eol_time left in days
EolDays(eol_time) == eol_time

\* eol_time / 365.0
EolYears(eol_time) ==
    IF IsFinite(eol_time)
    THEN Rat(eol_time.num, eol_time.den * DaysPerYear)
    ELSE eol_time

\* results[name] = {'eol_years': ..., 'eol_cycles': ..., 'temperature': temp}
ResultEntry(name, temp, eol_time, eol_cycles) ==
    [name |-> name, eol_years |-> EolYears(eol_time),
     eol_cycles |-> eol_cycles, temperature |-> temp]

\* the for loop over scenarios.items(), from the k-th item on
RECURSIVE ScenarioLoop(_, _, _, _, _, _, _)
ScenarioLoop(m, scenarios, cycles_per_day, eol_threshold, k, results, log) ==
    IF k > Len(scenarios)
    THEN [outcome |-> "ok", results |-> results, calls |-> log, printed |-> TRUE]
    ELSE
        LET name   == scenarios[k].name
            params == scenarios[k].params
        IN  IF "temperature" \notin DOMAIN params
            THEN [outcome |-> "KeyError", results |-> <<>>, calls |-> log,
                  printed |-> FALSE]
            ELSE
                LET temp == params["temperature"]
                    r == estimate_lifetime(m, temp, cycles_per_day, eol_threshold,
                                           DefaultMaxYears, ScenarioKwargs(params))
                IN  IF r.outcome # "ok"
                    THEN [outcome |-> r.outcome, results |-> <<>>,
                          calls |-> log \o r.calls, printed |-> FALSE]
                    ELSE ScenarioLoop(m, scenarios, cycles_per_day, eol_threshold,
                                      k + 1,
                                      Append(results,
                                             ResultEntry(name, temp, r.eol_time,
                                                         r.eol_cycles)),
                                      log \o r.calls)

compare_scenarios(m, scenarios, cycles_per_day, eol_threshold) ==
    ScenarioLoop(m, scenarios, cycles_per_day, eol_threshold, 1, <<>>, <<>>)

CompareScenarios ==
    /\ pc = "call"
    /\ op = "compare_scenarios"
    /\ LET r == compare_scenarios(model, args.scenarios, args.cycles_per_day,
                                  args.eol_threshold)
       IN  /\ outcome' = r.outcome
           /\ result' = r.results
           /\ calls' = r.calls
           /\ printed' = r.printed
    /\ pc' = "done"
    /\ UNCHANGED <<op, args, model>>

(***************************************************************************)
(* Inputs of the checked instances                                         *)
(***************************************************************************)
CyclesPerDay == {Rat(1, 2), Rat(2, 1)}
Thresholds == {Rat(-10, 100), Rat(0, 100), Rat(80, 100), Rat(100, 100)}

\* Fade levels (percent) of the three segments: constant, rising, and
\* non-monotone curves, reaching 20 %, exactly 100 % and more than 100 %.
Curves ==
    { <<0, 0, 0>>, <<20, 20, 20>>, <<100, 100, 100>>, <<120, 120, 120>>,
      <<0, 0, 20>>, <<0, 20, 100>>, <<0, 100, 120>>, <<0, 0, 100>>,
      <<0, 20, 0>>, <<20, 0, 20>>, <<0, 100, 0>>, <<0, 120, 0>>, <<0, 0, 120>> }

\* <<lenDelta, extra>>: the contract-keeping model, one that returns one
\* sample too few, and two that return one sample too many
Shapes == { <<0, 0>>, <<-1, 0>>, <<1, 0>>, <<1, 120>> }

CurveModel(c, s) ==
    [b1 |-> 2, b2 |-> 400, v0 |-> c[1], v1 |-> c[2], v2 |-> c[3],
     kT |-> 0, kd |-> 0, kc |-> 0, ks |-> 0, lenDelta |-> s[1], extra |-> s[2]]

\* fade curves over time only; the second breakpoint lies beyond a one-year
\* grid
CurveModels == { CurveModel(c, s) : c \in Curves, s \in Shapes }

LifetimeArgs ==
    [temperature : {25}, cycles_per_day : CyclesPerDay,
     eol_threshold : Thresholds, max_years : 0..MaxYears,
     kwargs : {NoKwargs}]

Idle ==
    /\ pc = "call"
    /\ outcome = "none"
    /\ result = Null
    /\ calls = <<>>
    /\ printed = FALSE

InitLifetime ==
    /\ op = "estimate_lifetime"
    /\ args \in LifetimeArgs
    /\ model \in CurveModels
    /\ Idle

NextLifetime == EstimateLifetime

SpecLifetime == InitLifetime /\ [][NextLifetime]_vars

\* scenario parameter bundles: two complete ones and three without 'temperature'
ScenarioParams ==
    { [k \in {"temperature"} |-> 25],
      [k \in {"temperature", "dod"} |-> IF k = "dod" THEN 1 ELSE 5],
      [k \in {"dod"} |-> 1],
      [k \in {"soc_avg"} |-> 1],
      NoKwargs }

ScenarioNames == {"base", "mild"}

\* insertion-ordered dicts over ScenarioNames: empty, one scenario, or two
\* scenarios with different bundles, in either order
ScenarioDicts ==
    {<<>>}
    \cup { <<[name |-> n, params |-> p]>> : n \in ScenarioNames, p \in ScenarioParams }
    \cup { d \in { <<[name |-> n1, params |-> p1], [name |-> n2, params |-> p2]>> :
                     n1 \in ScenarioNames, n2 \in ScenarioNames,
                     p1 \in ScenarioParams, p2 \in ScenarioParams } :
             d[1].name # d[2].name /\ d[1].params # d[2].params }

\* fade depends on time, temperature and depth of discharge
StressModels ==
    { [b1 |-> 1000, b2 |-> 5000, v0 |-> 0, v1 |-> 10, v2 |-> 20,
       kT |-> 1, kd |-> 10, kc |-> 0, ks |-> 0, lenDelta |-> 0, extra |-> 0],
      [b1 |-> 1000, b2 |-> 5000, v0 |-> 0, v1 |-> 15, v2 |-> 5,
       kT |-> 0, kd |-> 10, kc |-> 0, ks |-> 0, lenDelta |-> 0, extra |-> 0] }

ScenarioArgs ==
    [scenarios : ScenarioDicts, cycles_per_day : CyclesPerDay,
     eol_threshold : {Rat(80, 100)}]

InitScenarios ==
    /\ op = "compare_scenarios"
    /\ args \in ScenarioArgs
    /\ model \in StressModels
    /\ Idle

NextScenarios == CompareScenarios

SpecScenarios == InitScenarios /\ [][NextScenarios]_vars

(***************************************************************************)
(* StressFactorAnalysis: temperature_sweep, dod_sweep, crate_sweep         *)
(* The plotting calls are presentation only and are left out.              *)
(***************************************************************************)
\* time_days = np.array([time_years * 365])
SweepTime(time_years) == <<Int2Rat(time_years * DaysPerYear)>>

\* cycles = np.array([time_years * 365 * cycles_per_day])
SweepCycles(time_years, cycles_per_day) ==
    <<RatMul(Int2Rat(time_years * DaysPerYear), cycles_per_day)>>

\* Python keyword binding of f(..., name=value, **kwargs): a name given
\* twice is a TypeError
BindKeyword(kwargs, name, value) ==
    IF name \in DOMAIN kwargs
    THEN [outcome |-> "TypeError", kwargs |-> kwargs]
    ELSE [outcome |-> "ok",
          kwargs |-> [k \in (DOMAIN kwargs) \cup {name} |->
                         IF k = name THEN value ELSE kwargs[k]]]

\* self.model.predict_fade(time_days, cycles, temperature, **kwargs)[0]
FirstFade(m, time_days, cycles, temperature, kwargs) ==
    LET ret == PredictFade(m, time_days, cycles, temperature, kwargs)
    IN  [outcome |-> IF Len(ret) > 0 THEN "ok" ELSE "IndexError",
         fade |-> IF Len(ret) > 0 THEN ret[1] ELSE Null,
         call |-> Call(time_days, cycles, temperature, kwargs, ret)]

\* for temp in temp_range: fades.append(predict_fade(..., temp, **kwargs)[0])
RECURSIVE TemperatureLoop(_, _, _, _, _, _, _, _)
TemperatureLoop(m, temp_range, time_days, cycles, kwargs, k, fades, log) ==
    IF k > Len(temp_range)
    THEN [outcome |-> "ok", fades |-> fades, calls |-> log]
    ELSE LET r == FirstFade(m, time_days, cycles, temp_range[k], kwargs)
         IN  IF r.outcome # "ok"
             THEN [outcome |-> r.outcome, fades |-> <<>>,
                   calls |-> Append(log, r.call)]
             ELSE TemperatureLoop(m, temp_range, time_days, cycles, kwargs, k + 1,
                                  Append(fades, r.fade), Append(log, r.call))

Reverse(q) == Array([k \in 1..Len(q) |-> q[Len(q) + 1 - k]])

\* the sweep run over the values in reverse order
temperature_sweep_reversed(m, temp_range, time_years, cycles_per_day, kwargs) ==
    TemperatureLoop(m, Reverse(temp_range), SweepTime(time_years),
                    SweepCycles(time_years, cycles_per_day), kwargs, 1, <<>>, <<>>)

temperature_sweep(m, temp_range, time_years, cycles_per_day, kwargs) ==
    TemperatureLoop(m, temp_range, SweepTime(time_years),
                    SweepCycles(time_years, cycles_per_day), kwargs, 1, <<>>, <<>>)

\* for v in values: fades.append(predict_fade(..., temperature, name=v, **kwargs)[0])
RECURSIVE StressorLoop(_, _, _, _, _, _, _, _, _, _)
StressorLoop(m, name, values, time_days, cycles, temperature, kwargs, k, fades, log) ==
    IF k > Len(values)
    THEN [outcome |-> "ok", fades |-> fades, calls |-> log]
    ELSE LET b == BindKeyword(kwargs, name, values[k])
             r == FirstFade(m, time_days, cycles, temperature, b.kwargs)
         IN  IF b.outcome # "ok"
             THEN [outcome |-> b.outcome, fades |-> <<>>, calls |-> log]
             ELSE IF r.outcome # "ok"
             THEN [outcome |-> r.outcome, fades |-> <<>>,
                   calls |-> Append(log, r.call)]
             ELSE StressorLoop(m, name, values, time_days, cycles, temperature,
                               kwargs, k + 1, Append(fades, r.fade),
                               Append(log, r.call))

dod_sweep(m, dod_values, temperature, time_years, cycles_per_day, kwargs) ==
    StressorLoop(m, "dod", dod_values, SweepTime(time_years),
                 SweepCycles(time_years, cycles_per_day), temperature, kwargs,
                 1, <<>>, <<>>)

crate_sweep(m, c_rates, temperature, time_years, cycles_per_day, kwargs) ==
    StressorLoop(m, "c_rate", c_rates, SweepTime(time_years),
                 SweepCycles(time_years, cycles_per_day), temperature, kwargs,
                 1, <<>>, <<>>)

\* return x_values, np.array(fades)
SweepReturn(r, x_values) ==
    /\ outcome' = r.outcome
    /\ result' = IF r.outcome = "ok"
                 THEN [x |-> x_values, fades |-> r.fades]
                 ELSE [x |-> <<>>, fades |-> <<>>]
    /\ calls' = r.calls
    /\ pc' = "done"
    /\ UNCHANGED <<op, args, model, printed>>

TemperatureSweep ==
    /\ pc = "call"
    /\ op = "temperature_sweep"
    /\ SweepReturn(temperature_sweep(model, args.values, args.time_years,
                                     args.cycles_per_day, args.kwargs),
                   args.values)

DodSweep ==
    /\ pc = "call"
    /\ op = "dod_sweep"
    /\ SweepReturn(dod_sweep(model, args.values, args.temperature, args.time_years,
                             args.cycles_per_day, args.kwargs),
                   args.values)

CrateSweep ==
    /\ pc = "call"
    /\ op = "crate_sweep"
    /\ SweepReturn(crate_sweep(model, args.values, args.temperature,
                               args.time_years, args.cycles_per_day, args.kwargs),
                   args.values)

RECURSIVE SeqsUpTo(_, _)
SeqsUpTo(S, n) ==
    IF n = 0 THEN {<<>>}
    ELSE LET shorter == SeqsUpTo(S, n - 1)
         IN  shorter \cup { Append(q, x) : q \in shorter, x \in S }

SweepOps == {"temperature_sweep", "dod_sweep", "crate_sweep"}
SweepValues == {1, 2, 5}
SweepKwargSets ==
    {NoKwargs, [k \in {"soc_avg"} |-> 1], [k \in {"dod"} |-> 2],
     [k \in {"c_rate"} |-> 2]}

\* fade depends on time, temperature and on every named stressor
SweepModels ==
    { [b1 |-> 2, b2 |-> 400, v0 |-> 0, v1 |-> 10, v2 |-> 20,
       kT |-> 1, kd |-> 3, kc |-> 7, ks |-> 50,
       lenDelta |-> s[1], extra |-> s[2]] : s \in Shapes }

SweepArgs ==
    [values : SeqsUpTo(SweepValues, MaxLen), temperature : {25},
     time_years : {0, 1, 10}, cycles_per_day : {Rat(2, 1)},
     kwargs : SweepKwargSets]

InitSweep ==
    /\ op \in SweepOps
    /\ args \in SweepArgs
    /\ model \in SweepModels
    /\ Idle

NextSweep == TemperatureSweep \/ DodSweep \/ CrateSweep

SpecSweep == InitSweep /\ [][NextSweep]_vars

(***************************************************************************)
(* ModelValidator: calculate_rmse, calculate_mape                          *)
(* predicted and actual are one-dimensional arrays of numbers.             *)
(***************************************************************************)
NInf == [kind |-> "ninf", num |-> 0, den |-> 1]
Abs(n) == IF n < 0 THEN -n ELSE n

\* the non-negative square root of a finite x >= 0, kept symbolic:
\* kind "sqrt" with the radicand num / den
Sqrt(x) ==
    IF IsFinite(x) /\ x.num >= 0
    THEN [kind |-> "sqrt", num |-> x.num, den |-> x.den]
    ELSE IF x.kind = "inf" THEN Inf ELSE NaN

\* IEEE addition on extended rationals
ExtAdd(x, y) ==
    IF x.kind = "nan" \/ y.kind = "nan" THEN NaN
    ELSE IF IsFinite(x) /\ IsFinite(y)
         THEN Rat(x.num * y.den + y.num * x.den, x.den * y.den)
    ELSE IF IsFinite(x) THEN y
    ELSE IF IsFinite(y) THEN x
    ELSE IF x.kind = y.kind THEN x ELSE NaN

\* IEEE division of finite x by finite y: x / 0 is +-inf, 0 / 0 is nan
\* (NumPy warns and carries on)
ExtDiv(x, y) ==
    IF y.num = 0
    THEN IF x.num = 0 THEN NaN ELSE IF x.num > 0 THEN Inf ELSE NInf
    ELSE IF y.num > 0 THEN Rat(x.num * y.den, x.den * y.num)
    ELSE Rat(-(x.num * y.den), -(x.den * y.num))

\* np.abs
ExtAbs(x) ==
    IF IsFinite(x) THEN Rat(Abs(x.num), x.den)
    ELSE IF x.kind = "ninf" THEN Inf ELSE x

\* scalar * 100 and scalar / n (n > 0)
ExtScale(x, n) == IF IsFinite(x) THEN Rat(x.num * n, x.den) ELSE x
ExtOver(x, n) == IF IsFinite(x) THEN Rat(x.num, x.den * n) ELSE x

RECURSIVE ExtSum(_, _)
ExtSum(arr, k) ==
    IF k = 0 THEN Int2Rat(0) ELSE ExtAdd(ExtSum(arr, k - 1), arr[k])

\* np.mean of a one-dimensional array: nan for an empty one
Mean(arr) ==
    IF Len(arr) = 0 THEN NaN ELSE ExtOver(ExtSum(arr, Len(arr)), Len(arr))

\* NumPy broadcasting of two one-dimensional shapes: equal lengths, or one
\* of them of length 1 (stretched); anything else is a ValueError
BroadcastLen(n1, n2) ==
    IF n1 = n2 THEN n1
    ELSE IF n1 = 1 THEN n2
    ELSE IF n2 = 1 THEN n1
    ELSE -1

BroadcastAt(arr, k) == IF Len(arr) = 1 THEN arr[1] ELSE arr[k]

\* predicted - actual
Residuals(predicted, actual) ==
    Array([k \in 1..BroadcastLen(Len(predicted), Len(actual)) |->
              RatSub(Int2Rat(BroadcastAt(predicted, k)),
                     Int2Rat(BroadcastAt(actual, k)))])

\* predicted - actual, not squared
SignedErrors(predicted, actual) == Residuals(predicted, actual)

\* (predicted - actual) ** 2
SquaredErrors(predicted, actual) ==
    LET d == Residuals(predicted, actual)
    IN  Array([k \in 1..Len(d) |-> RatMul(d[k], d[k])])

\* np.abs(predicted - actual) / actual
AbsoluteOverSigned(predicted, actual) ==
    LET d == Residuals(predicted, actual)
    IN  Array([k \in 1..Len(d) |->
                  ExtDiv(ExtAbs(d[k]), Int2Rat(BroadcastAt(actual, k)))])

\* np.abs((predicted - actual) / actual)
AbsoluteRatios(predicted, actual) ==
    LET d == Residuals(predicted, actual)
    IN  Array([k \in 1..Len(d) |->
                  ExtAbs(ExtDiv(d[k], Int2Rat(BroadcastAt(actual, k))))])

calculate_rmse(predicted, actual) ==
    IF BroadcastLen(Len(predicted), Len(actual)) < 0
    THEN [outcome |-> "ValueError", value |-> Null]
    ELSE [outcome |-> "ok",
          value |-> Sqrt(Mean(SquaredErrors(predicted, actual)))]

calculate_mape(predicted, actual) ==
    IF BroadcastLen(Len(predicted), Len(actual)) < 0
    THEN [outcome |-> "ValueError", value |-> Null]
    ELSE [outcome |-> "ok",
          value |-> ExtScale(Mean(AbsoluteRatios(predicted, actual)),
                             MapePercent)]

MetricReturn(r) ==
    /\ outcome' = r.outcome
    /\ result' = r.value
    /\ pc' = "done"
    /\ UNCHANGED <<op, args, model, calls, printed>>

CalculateRmse ==
    /\ pc = "call"
    /\ op = "calculate_rmse"
    /\ MetricReturn(calculate_rmse(args.predicted, args.actual))

CalculateMape ==
    /\ pc = "call"
    /\ op = "calculate_mape"
    /\ MetricReturn(calculate_mape(args.predicted, args.actual))

MetricOps == {"calculate_rmse", "calculate_mape"}
MetricValues == {-1, 0, 2}

MetricArgs ==
    [predicted : SeqsUpTo(MetricValues, MaxLen),
     actual : SeqsUpTo(MetricValues, MaxLen)]

InitValidator ==
    /\ op \in MetricOps
    /\ args \in MetricArgs
    /\ model \in SweepModels
    /\ Idle

NextValidator == CalculateRmse \/ CalculateMape

SpecValidator == InitValidator /\ [][NextValidator]_vars

(***************************************************************************)
(* Properties                                                              *)
(***************************************************************************)
Done(o) == pc = "done" /\ op = o

\* the model keeps the predict_fade contract: as many fades as time points
Conforming == model.lenDelta = 0

\* retention 1 - f/100 is at or below the threshold thr (f, thr finite)
AtEol(f, thr) ==
    (PercentScale * f.den - f.num) * thr.den <= thr.num * (PercentScale * f.den)

\* fade f compared with 100 %
Above100(f) == f.num > PercentScale * f.den
AtLeast100(f) == f.num >= PercentScale * f.den

\* C1: for every fade curve returned over the time grid, monotone or not,
\* estimate_lifetime returns the time and cycles at the smallest grid index
\* whose retention is at or below eol_threshold, and (inf, inf), without an
\* error, when there is no such index.
C1_FirstCrossing ==
    (Done("estimate_lifetime") /\ Conforming) =>
        LET c == calls[1]
            n == Len(c.time_days)
            hit == {k \in 1..n : AtEol(c.ret[k], args.eol_threshold)}
        IN  /\ outcome = "ok"
            /\ Len(calls) = 1
            /\ Len(c.ret) = n
            /\ Len(c.cycles) = n
            /\ IF hit = {}
               THEN result.eol_time = Inf /\ result.eol_cycles = Inf
               ELSE \E k \in hit :
                       /\ \A j \in 1..(k - 1) : j \notin hit
                       /\ result.eol_time = c.time_days[k]
                       /\ result.eol_cycles = c.cycles[k]

\* C1 witness, a non-monotone curve: EOL is found after the start of the
\* grid and the retention is back above the threshold later on
C1_Witness ==
    /\ Done("estimate_lifetime") /\ Conforming /\ outcome = "ok"
    /\ IsFinite(result.eol_time) /\ result.eol_time.num > 0
    /\ \E k \in 1..Len(calls[1].ret) :
          /\ ~AtEol(calls[1].ret[k], args.eol_threshold)
          /\ RatLeq(result.eol_time, calls[1].time_days[k])

\* C2: for every positive max_years the time grid has max_years*365 samples,
\* one per day: TimeGrid[i] = i, the last sample being max_years*365 - 1.
C2_DailyGrid ==
    (Done("estimate_lifetime") /\ args.max_years > 0) =>
        LET grid == calls[1].time_days
        IN  /\ Len(grid) = args.max_years * DaysPerYear
            /\ \A k \in 1..Len(grid) : RatEq(grid[k], Int2Rat(k - 1))

\* C9 as stated: with eol_threshold <= 0 a finite EOL implies that the fade
\* exceeds 100 % at some grid point.
C9_FiniteNeedsFadeAbove100 ==
    (/\ Done("estimate_lifetime") /\ outcome = "ok"
     /\ args.eol_threshold.num <= 0
     /\ IsFinite(result.eol_time)) =>
        \E k \in 1..Len(calls[1].ret) : Above100(calls[1].ret[k])

\* C9 amended: with eol_threshold <= 0 a finite EOL implies that the fade
\* reaches 100 % at some grid point, and exceeds it when eol_threshold < 0.
C9_FiniteNeedsFadeAtLeast100 ==
    (/\ Done("estimate_lifetime") /\ outcome = "ok"
     /\ args.eol_threshold.num <= 0
     /\ IsFinite(result.eol_time)) =>
        /\ \E k \in 1..Len(calls[1].ret) : AtLeast100(calls[1].ret[k])
        /\ args.eol_threshold.num < 0 =>
              \E k \in 1..Len(calls[1].ret) : Above100(calls[1].ret[k])

\* C9 witness: a finite EOL with a threshold at or below zero
C9_Witness ==
    /\ Done("estimate_lifetime") /\ outcome = "ok"
    /\ args.eol_threshold.num <= 0
    /\ IsFinite(result.eol_time)

\* C10: every result of estimate_lifetime is either (inf, inf) or a finite
\* pair whose time is a point of the time grid, within [0, max_years*365],
\* and whose cycles are that time times cycles_per_day; with max_years = 0
\* the result is (inf, inf).
C10_WellFormed ==
    (Done("estimate_lifetime") /\ outcome = "ok") =>
        /\ \/ result.eol_time = Inf /\ result.eol_cycles = Inf
           \/ /\ IsFinite(result.eol_time) /\ IsFinite(result.eol_cycles)
              /\ \E k \in 1..Len(calls[1].time_days) :
                    result.eol_time = calls[1].time_days[k]
              /\ 0 <= result.eol_time.num
              /\ result.eol_time.num
                    <= args.max_years * DaysPerYear * result.eol_time.den
              /\ result.eol_cycles = RatMul(result.eol_time, args.cycles_per_day)
        /\ args.max_years = 0 => result.eol_time = Inf

\* C10 witness: a finite result past the start of the grid
C10_Witness ==
    /\ Done("estimate_lifetime") /\ outcome = "ok"
    /\ IsFinite(result.eol_time) /\ result.eol_time.num > 0
    /\ IsFinite(result.eol_cycles)

HasTemperature(scenario) == "temperature" \in DOMAIN scenario.params

\* the entry compare_scenarios must hold for a call c of the model made with
\* grids c.time_days, c.cycles that returned the fades c.ret
EntryFor(e, c, thr) ==
    LET n == Len(c.time_days)
        hit == {k \in 1..n : AtEol(c.ret[k], thr)}
    IN  IF hit = {}
        THEN e.eol_years = Inf /\ e.eol_cycles = Inf
        ELSE \E k \in hit :
                /\ \A j \in 1..(k - 1) : j \notin hit
                /\ e.eol_years = Rat(c.time_days[k].num,
                                     c.time_days[k].den * DaysPerYear)
                /\ e.eol_cycles = c.cycles[k]

\* C3: when every scenario has a 'temperature' key, compare_scenarios
\* returns one entry per scenario, in insertion order, holding the scenario's
\* temperature, the cycles estimate_lifetime returns for that temperature and
\* the remaining parameters (given cycles_per_day and eol_threshold, default
\* horizon), and the EOL time in days divided by 365.
C3_OneEntryPerScenario ==
    (/\ Done("compare_scenarios")
     /\ \A k \in 1..Len(args.scenarios) : HasTemperature(args.scenarios[k])) =>
        /\ outcome = "ok"
        /\ Len(result) = Len(args.scenarios)
        /\ Len(calls) = Len(args.scenarios)
        /\ \A k \in 1..Len(args.scenarios) :
              LET sc == args.scenarios[k]
                  c == calls[k]
              IN  /\ result[k].name = sc.name
                  /\ result[k].temperature = sc.params["temperature"]
                  /\ c.temperature = sc.params["temperature"]
                  /\ DOMAIN c.kwargs = (DOMAIN sc.params) \ {"temperature"}
                  /\ \A x \in DOMAIN c.kwargs : c.kwargs[x] = sc.params[x]
                  /\ Len(c.time_days) = DefaultMaxYears * DaysPerYear
                  /\ c.time_days[Len(c.time_days)]
                        = Rat((Len(c.time_days) - 1) * Len(c.time_days),
                              Len(c.time_days) - 1)
                  /\ c.cycles[Len(c.time_days)]
                        = RatMul(c.time_days[Len(c.time_days)], args.cycles_per_day)
                  /\ EntryFor(result[k], c, args.eol_threshold)

\* C3 witness: two complete scenarios that reach EOL at different finite times
C3_Witness ==
    /\ Done("compare_scenarios") /\ outcome = "ok"
    /\ Len(args.scenarios) = 2 /\ Len(result) = 2
    /\ IsFinite(result[1].eol_years) /\ IsFinite(result[2].eol_years)
    /\ result[1].eol_years.num > 0
    /\ result[1].eol_years # result[2].eol_years

\* C6: when any scenario lacks the 'temperature' key, compare_scenarios ends
\* in an error, returns no mapping, prints no report and has not evaluated
\* the model for any scenario, wherever the malformed scenario stands.
C6_RejectedBeforeAnyEvaluation ==
    (/\ Done("compare_scenarios")
     /\ \E k \in 1..Len(args.scenarios) : ~HasTemperature(args.scenarios[k])) =>
        /\ outcome = "KeyError"
        /\ result = <<>>
        /\ printed = FALSE
        /\ calls = <<>>

\* the stress parameters the sweep passes on do not name the swept stressor
SweptName(o) ==
    IF o = "dod_sweep" THEN "dod"
    ELSE IF o = "crate_sweep" THEN "c_rate" ELSE "temperature"

\* C4: each sweep returns the input sequence unchanged and a fades sequence
\* of the same length, fades[i] being the model's fade at the single point
\* time_years*365 days with the i-th value substituted for the swept
\* stressor and everything else held fixed; repeated values included.
C4_SweepAligned ==
    (/\ pc = "done" /\ op \in SweepOps
     /\ Conforming
     /\ SweptName(op) \notin DOMAIN args.kwargs) =>
        /\ outcome = "ok"
        /\ result.x = args.values
        /\ Len(result.fades) = Len(args.values)
        /\ Len(calls) = Len(args.values)
        /\ \A i \in 1..Len(args.values) :
              LET c == calls[i]
              IN  /\ c.time_days = <<Int2Rat(args.time_years * DaysPerYear)>>
                  /\ Len(c.cycles) = 1
                  /\ RatEq(c.cycles[1],
                           RatMul(Int2Rat(args.time_years * DaysPerYear),
                                  args.cycles_per_day))
                  /\ IF op = "temperature_sweep"
                     THEN c.temperature = args.values[i] /\ c.kwargs = args.kwargs
                     ELSE /\ c.temperature = args.temperature
                          /\ DOMAIN c.kwargs = (DOMAIN args.kwargs) \cup {SweptName(op)}
                          /\ c.kwargs[SweptName(op)] = args.values[i]
                          /\ \A x \in DOMAIN args.kwargs : c.kwargs[x] = args.kwargs[x]
                  /\ Len(c.ret) = 1
                  /\ result.fades[i] = c.ret[1]
                  /\ result.fades[i]
                        = PointFade(model, c.time_days[1], c.cycles[1],
                                    c.temperature, c.kwargs)

\* C4 witness: a sweep over a sequence that is not sorted and repeats a value
C4_Witness ==
    /\ pc = "done" /\ op \in SweepOps /\ Conforming /\ outcome = "ok"
    /\ Len(args.values) = 3
    /\ args.values[1] = args.values[3]
    /\ args.values[2] < args.values[1]
    /\ result.fades[1] # result.fades[2]

\* C5: a call of calculate_rmse or calculate_mape with predicted and actual
\* of unequal length ends in a shape error and returns no number.
C5_UnequalLengthsRejected ==
    (/\ pc = "done" /\ op \in MetricOps
     /\ Len(args.predicted) # Len(args.actual)) =>
        /\ outcome # "ok"
        /\ result = Null

RECURSIVE SumSquares(_, _, _)
SumSquares(p, a, k) ==
    IF k = 0 THEN 0
    ELSE SumSquares(p, a, k - 1) + (p[k] - a[k]) * (p[k] - a[k])

\* result is sqrt(mean((p - a)^2)), which is >= 0, and 0 iff p = a elementwise
IsRmseOf(r, p, a) ==
    /\ r.kind = "sqrt"
    /\ r.den > 0 /\ r.num >= 0
    /\ r.num * Len(p) = SumSquares(p, a, Len(p)) * r.den
    /\ r.num = 0 <=> \A i \in 1..Len(p) : p[i] = a[i]

Over(x, signed) == IF signed THEN x ELSE Abs(x)

\* sum over i <= k of |p[i] - a[i]| / Over(a[i], signed), as a fraction
RECURSIVE SumRatios(_, _, _, _)
SumRatios(p, a, k, signed) ==
    IF k = 0 THEN Rat(0, 1)
    ELSE LET rest == SumRatios(p, a, k - 1, signed)
         IN  Rat(rest.num * Over(a[k], signed) + Abs(p[k] - a[k]) * rest.den,
                 rest.den * Over(a[k], signed))

\* r is finite and equals mean(|p - a| / Over(a, signed)) * 100
IsMapeOf(r, p, a, signed) ==
    LET total == SumRatios(p, a, Len(p), signed)
    IN  /\ IsFinite(r)
        /\ Len(p) > 0
        /\ r.num * (total.den * Len(p)) = total.num * MapePercent * r.den

HasZero(a) == \E i \in 1..Len(a) : a[i] = 0

\* C8 as stated: with a zero in actual calculate_mape raises nothing and
\* returns inf or nan; without one it returns the finite value
\* mean(|predicted - actual| / actual) * 100.
C8_MapeOverActual ==
    (Done("calculate_mape") /\ Len(args.predicted) = Len(args.actual)) =>
        /\ outcome = "ok"
        /\ IF HasZero(args.actual)
           THEN result.kind \in {"inf", "ninf", "nan"}
           ELSE IsMapeOf(result, args.predicted, args.actual, TRUE)

\* C8 amended: with a zero in actual the result is inf or nan and nothing
\* is raised; without one, for non-empty sequences, it is the finite value
\* mean(|predicted - actual| / |actual|) * 100; for empty ones it is nan.
C8_MapeOverAbsActual ==
    (Done("calculate_mape") /\ Len(args.predicted) = Len(args.actual)) =>
        /\ outcome = "ok"
        /\ IF HasZero(args.actual)
           THEN result.kind \in {"inf", "nan"}
           ELSE IF Len(args.actual) > 0
           THEN IsMapeOf(result, args.predicted, args.actual, FALSE)
           ELSE result = NaN

\* C8 witness: a negative measured value, and an error on it
C8_Witness ==
    /\ Done("calculate_mape") /\ outcome = "ok"
    /\ Len(args.predicted) = Len(args.actual)
    /\ ~HasZero(args.actual)
    /\ \E i \in 1..Len(args.actual) :
          args.actual[i] < 0 /\ args.predicted[i] # args.actual[i]
    /\ IsFinite(result) /\ result.num > 0

====
